---- MODULE Spec2Model ----
(***************************************************************************)
(* Model of the query builder and the transaction coordinator of           *)
(* src/services/postgresClient.ts.                                         *)
(*                                                                         *)
(* Spec   : concurrent PostgresClient.transaction() invocations over a     *)
(*          bounded connection pool, every statement of which may fail.    *)
(* SpecQB : one QueryBuilder instance, its chained filter calls and its    *)
(*          terminal operations.                                           *)
(***************************************************************************)
EXTENDS Integers, Sequences, FiniteSets, TLC

\* ---------------------------------------------------------------- bounds
NumTx == 2        \* concurrent transaction() invocations
PoolSize == 1     \* connections of the pool
MaxInserts == 2   \* inserts one unit of work performs
MaxFilters == 2   \* filter calls chained on one builder
MaxIn == 2        \* values passed to one in() call
MaxKeys == 2      \* keys of a record passed to insert() or update()
MaxOrderBy == 2   \* orderBy calls chained on one builder
MaxPage == 1      \* largest argument of limit() and offset()
NumRows == 2      \* rows of a service's table before the first call
MaxItems == 1     \* items of one order
OrderPool == 2    \* connections of the pool the order services share
NumTables == 1    \* tables of the restaurant
MaxSessions == 2  \* cash register sessions ever inserted
MaxBalance == 1   \* largest balance passed to the cash register services
NumUsers == 2     \* users ever inserted
MaxLogins == 2    \* auth sessions ever inserted
MaxTokens == 1    \* password-reset tokens of the database
MaxUses == 2      \* password updates sent for one token
MaxInFlight == 1  \* auth statements sent and not settled at one time

Procs == 1..NumTx
Conns == 1..PoolSize

VARIABLES
  pc,         \* pc[p]: the await transaction() invocation p is suspended at
  uow,        \* uow[p]: how far the callback (the unit of work) has got
  client,     \* client[p]: the connection p holds ({} or a singleton)
  available,  \* the pool's idle connections
  txOpen,     \* txOpen[c]: connection c has a transaction begun and not ended
  pending,    \* pending[c]: rows written in c's open transaction
  table,      \* committed rows: what an independent read sees
  log,        \* log[p]: what p did on its connection, in order
  err,        \* err[p]: the error caught by transaction()'s catch clause
  result,     \* result[p]: how the call finished
  logged      \* logged[p]: errors transaction() passed to console.error

txVars == <<pc, uow, client, available, txOpen, pending, table, log, err,
            result, logged>>

VARIABLES
  qpc,              \* "building" until a terminal operation; "counted"
                    \* once count() has resolved, "done" after any other
  columns,          \* QueryBuilder.columns
  whereConditions,  \* QueryBuilder.whereConditions
  whereParams,      \* QueryBuilder.whereParams
  orderByColumns,   \* QueryBuilder.orderByColumns
  orderDirection,   \* QueryBuilder.orderDirection
  limitValue,       \* QueryBuilder.limitValue
  offsetValue,      \* QueryBuilder.offsetValue
  paramCount,       \* QueryBuilder.paramCount
  calls,            \* the filter calls made on the builder, in call order
  chained,          \* the arguments of the last select, limit and offset
                    \* calls and of every orderBy call, in call order
  counted,          \* count() has been called on this builder
  sent,             \* the statement and parameters handed to client.query
  qresult           \* what the terminal operation resolved with

\* The fields of the QueryBuilder instance.
fields == <<columns, whereConditions, whereParams, orderByColumns,
            orderDirection, limitValue, offsetValue, paramCount>>

qbVars == <<qpc, fields, calls, chained, counted, sent, qresult>>

VARIABLES
  entity,      \* the table the services called in this run work on
  rows,        \* rows[id]: the row of that table with this id (its name)
  dispatched,  \* the statement last handed to the pool, and its table
  executed,    \* how the database settled it: "pending", "ok", "failed"
  call,        \* the service call made last
  outcome,     \* what that call resolved with
  snapshot,    \* rows at the time of that call
  referred,    \* ids of the table's rows that rows of the dependent table
               \* refer to (menu_items.category_id, orders.table_id, ...)
  wasReferred  \* referred at the time of that call

svcVars == <<entity, rows, dispatched, executed, call, outcome, snapshot,
             referred, wasReferred>>

VARIABLES
  opc,      \* opc[p]: the await order service call p is suspended at
  order,    \* order[p]: the service called, its order id and item count
  holds,    \* holds[p]: the connection p's transaction holds ({} or {c})
  idle,     \* the pool's idle connections
  written,  \* written[p]: rows written in p's open transaction
  stored,   \* committed rows: what a read through the pool sees
  failed,   \* failed[p]: the database rejected a statement of p
  fetched,  \* fetched[p]: what fetchOrderById resolved with
  answer,   \* answer[p]: what the service resolved with
  tableStatus  \* tableStatus[t]: committed tables.status of table t

VARIABLES
  cash,        \* cash_register_sessions: session id -> row
  cashSent,    \* statements handed to the pool and not settled yet
  cashCall,    \* the last cash register service call
  cashOut,     \* what that call resolved with
  cashBefore   \* cash at the time of that call

cashVars == <<cash, cashSent, cashCall, cashOut, cashBefore>>

VARIABLES
  users,      \* users: user id -> row
  sess,       \* sessions: session id -> row
  resets,     \* password_resets: token -> row
  authSent,   \* statements handed to the pool and not settled yet
  authCall,   \* the last auth service call
  authOut,    \* what that call resolved with
  created,    \* sessions whose INSERT the database executed
  accepted,   \* sessions getSession returned without error
  signedOut,  \* sessions signOut was called for
  lapsed,     \* sessions whose expires_at has passed
  stale,      \* tokens whose expires_at has passed
  uses        \* uses[t]: password updates executed for token t

authVars == <<users, sess, resets, authSent, authCall, authOut, created,
              accepted, signedOut, lapsed, stale, uses>>

ordVars == <<opc, order, holds, idle, written, stored, failed, fetched,
             answer, tableStatus>>

\* ------------------------------------------------------------ data shapes
NullData == <<"null">>
Val(v) == <<"val", v>>

Stmt(op, c, row, ok) == [op |-> op, conn |-> c, row |-> row, ok |-> ok]

NoResult == [kind |-> "pending", data |-> NullData, error |-> "null"]
Returned(d, e) == [kind |-> "returned", data |-> d, error |-> e]
Raised(e) == [kind |-> "raised", data |-> NullData, error |-> e]

TheClient(p) == CHOOSE c \in client[p] : TRUE

\* The rows the unit of work of p has inserted so far, in order.
RECURSIVE RowsOf(_)
RowsOf(s) ==
  IF s = <<>> THEN <<>>
  ELSE IF Head(s).op = "INSERT" /\ Head(s).ok
       THEN <<Head(s).row>> \o RowsOf(Tail(s))
       ELSE RowsOf(Tail(s))

Inserted(p) == Len(RowsOf(log[p]))

\* ------------------------------------------------ the database connection
\* BEGIN on a connection: a transaction is open afterwards.
ServerBegin(c) ==
  /\ txOpen' = [txOpen EXCEPT ![c] = TRUE]
  /\ UNCHANGED <<pending, table>>

\* INSERT on a connection: the row is pending inside an open transaction,
\* committed at once outside of one.
ServerInsert(c, row) ==
  /\ IF txOpen[c]
     THEN /\ pending' = [pending EXCEPT ![c] = @ \cup {row}]
          /\ table' = table
     ELSE /\ table' = table \cup {row}
          /\ pending' = pending
  /\ txOpen' = txOpen

\* COMMIT: the pending rows of the connection become visible.
ServerCommit(c) ==
  /\ table' = table \cup pending[c]
  /\ pending' = [pending EXCEPT ![c] = {}]
  /\ txOpen' = [txOpen EXCEPT ![c] = FALSE]

\* ROLLBACK: the pending rows of the connection are dropped.
ServerRollback(c) ==
  /\ pending' = [pending EXCEPT ![c] = {}]
  /\ txOpen' = [txOpen EXCEPT ![c] = FALSE]
  /\ table' = table

\* A statement that fails changes nothing on the server.
ServerFailed == UNCHANGED <<txOpen, pending, table>>

\* -------------------------------------------------------------- Init
InitTx ==
  /\ pc = [p \in Procs |-> "Idle"]
  /\ uow = [p \in Procs |-> "notCalled"]
  /\ client = [p \in Procs |-> {}]
  /\ available = Conns
  /\ txOpen = [c \in Conns |-> FALSE]
  /\ pending = [c \in Conns |-> {}]
  /\ table = {}
  /\ log = [p \in Procs |-> <<>>]
  /\ err = [p \in Procs |-> "null"]
  /\ result = [p \in Procs |-> NoResult]
  /\ logged = [p \in Procs |-> <<>>]

\* ------------------------------------------- PostgresClient.transaction
\* transaction(callback) is called: pool.connect() is awaited.
Start(p) ==
  /\ pc[p] = "Idle"
  /\ pc' = [pc EXCEPT ![p] = "Connect"]
  /\ UNCHANGED <<uow, client, available, txOpen, pending, table, log, err,
                 result, logged>>

\* pool.connect() resolves with an idle connection; BEGIN is sent.
ConnectStep(p, offered) ==
  /\ pc[p] = "Connect"
  /\ \E c \in offered :
       /\ available' = available \ {c}
       /\ client' = [client EXCEPT ![p] = {c}]
       /\ log' = [log EXCEPT ![p] = Append(@, Stmt("CONNECT", c, <<>>, TRUE))]
  /\ pc' = [pc EXCEPT ![p] = "Begin"]
  /\ UNCHANGED <<uow, txOpen, pending, table, err, result, logged>>

\* The pool handing out any of its connections, idle or not.
ConnectBusy(p) == ConnectStep(p, Conns)

ConnectOk(p) == ConnectStep(p, available)

\* pool.connect() rejects: the await is outside the try block, so the
\* rejection leaves transaction() as a raised failure.
ConnectFail(p) ==
  /\ pc[p] = "Connect"
  /\ result' = [result EXCEPT ![p] = Raised("ConnectError")]
  /\ pc' = [pc EXCEPT ![p] = "Done"]
  /\ UNCHANGED <<uow, client, available, txOpen, pending, table, log, err,
                 logged>>

\* client.query('BEGIN') settles: the callback is invoked, or the catch
\* clause is entered and ROLLBACK is sent.
BeginStep(p, inTry) ==
  /\ pc[p] = "Begin"
  /\ \E ok \in BOOLEAN :
       LET c == TheClient(p) IN
       /\ log' = [log EXCEPT ![p] = Append(@, Stmt("BEGIN", c, <<>>, ok))]
       /\ IF ok
          THEN /\ ServerBegin(c)
               /\ pc' = [pc EXCEPT ![p] = "Work"]
               /\ uow' = [uow EXCEPT ![p] = "running"]
               /\ err' = err
          ELSE /\ ServerFailed
               /\ pc' = [pc EXCEPT ![p] = IF inTry THEN "Rollback" ELSE "Work"]
               /\ uow' = [uow EXCEPT ![p] = IF inTry THEN @ ELSE "running"]
               /\ err' = [err EXCEPT ![p] = IF inTry THEN "BeginError" ELSE @]
  /\ UNCHANGED <<client, available, result, logged>>

\* The outcome of BEGIN ignored: the callback runs whatever BEGIN did.
BeginUnchecked(p) == BeginStep(p, FALSE)

Begin(p) == BeginStep(p, TRUE)

\* The unit of work awaits its next insert on the connection handle; a
\* failed insert rejects, the unit of work rethrows and the catch clause of
\* transaction() sends ROLLBACK.
UowInsert(p) ==
  /\ pc[p] = "Work"
  /\ Inserted(p) < MaxInserts
  /\ \E ok \in BOOLEAN :
       LET c == TheClient(p)
           row == <<p, Inserted(p) + 1>>
       IN
       /\ log' = [log EXCEPT ![p] = Append(@, Stmt("INSERT", c, row, ok))]
       /\ IF ok
          THEN /\ ServerInsert(c, row)
               /\ UNCHANGED <<pc, err, uow>>
          ELSE /\ ServerFailed
               /\ pc' = [pc EXCEPT ![p] = "Rollback"]
               /\ uow' = [uow EXCEPT ![p] = "raised"]
               /\ err' = [err EXCEPT ![p] = "InsertError"]
  /\ UNCHANGED <<client, available, result, logged>>

\* The unit of work throws an error of its own.
UowRaise(p) ==
  /\ pc[p] = "Work"
  /\ pc' = [pc EXCEPT ![p] = "Rollback"]
  /\ uow' = [uow EXCEPT ![p] = "raised"]
  /\ err' = [err EXCEPT ![p] = "UowError"]
  /\ UNCHANGED <<client, available, txOpen, pending, table, log, result,
                 logged>>

\* The unit of work returns normally: COMMIT is sent.
UowReturn(p) ==
  /\ pc[p] = "Work"
  /\ pc' = [pc EXCEPT ![p] = "Commit"]
  /\ uow' = [uow EXCEPT ![p] = "returned"]
  /\ UNCHANGED <<client, available, txOpen, pending, table, log, err,
                 result, logged>>

\* The finally clause: client.release().
Release(p, entries) ==
  /\ available' = available \cup client[p]
  /\ client' = [client EXCEPT ![p] = {}]
  /\ log' = [log EXCEPT ![p] =
               @ \o entries \o <<Stmt("RELEASE", TheClient(p), <<>>, TRUE)>>]

\* The finally clause left out: the connection stays checked out.
ReleaseSkipped(p, entries) ==
  /\ log' = [log EXCEPT ![p] = @ \o entries]
  /\ UNCHANGED <<available, client>>

\* client.query('COMMIT') settles: the result of the unit of work is
\* returned and the connection released, or the catch clause is entered
\* and ROLLBACK is sent.
CommitStep(p, sendOk, inTry) ==
  /\ pc[p] = "Commit"
  /\ \E ok \in BOOLEAN :
       LET c == TheClient(p)
           st == Stmt("COMMIT", c, <<>>, ok)
       IN
       IF ok
       THEN /\ IF sendOk THEN ServerCommit(c) ELSE ServerFailed
            /\ result' = [result EXCEPT
                            ![p] = Returned(Val(RowsOf(log[p])), "null")]
            /\ Release(p, <<st>>)
            /\ pc' = [pc EXCEPT ![p] = "Done"]
            /\ err' = err
       ELSE IF inTry
       THEN /\ ServerFailed
            /\ log' = [log EXCEPT ![p] = Append(@, st)]
            /\ pc' = [pc EXCEPT ![p] = "Rollback"]
            /\ err' = [err EXCEPT ![p] = "CommitError"]
            /\ UNCHANGED <<result, client, available>>
       ELSE /\ ServerFailed
            /\ result' = [result EXCEPT
                            ![p] = Returned(NullData, "CommitError")]
            /\ Release(p, <<st>>)
            /\ pc' = [pc EXCEPT ![p] = "Done"]
            /\ err' = [err EXCEPT ![p] = "CommitError"]
  /\ UNCHANGED <<uow, logged>>

\* The COMMIT left out: the envelope is returned without committing.
CommitForgotten(p) == CommitStep(p, FALSE, TRUE)

\* A failed COMMIT handled without ROLLBACK: the error is returned and the
\* connection released at once.
CommitNoRollback(p) == CommitStep(p, TRUE, FALSE)

Commit(p) == CommitStep(p, TRUE, TRUE)

\* client.query('ROLLBACK') settles inside the catch clause. When it
\* succeeds the caught error is logged and returned in the envelope; when
\* it rejects, the rejection leaves the catch clause (nothing is logged,
\* the caught error is lost). The finally clause runs on both paths.
RollbackStep(p, finallyOnFail) ==
  /\ pc[p] = "Rollback"
  /\ \E ok \in BOOLEAN :
       LET c == TheClient(p)
           st == Stmt("ROLLBACK", c, <<>>, ok)
       IN
       IF ok
       THEN /\ ServerRollback(c)
            /\ logged' = [logged EXCEPT ![p] = Append(@, err[p])]
            /\ result' = [result EXCEPT ![p] = Returned(NullData, err[p])]
            /\ Release(p, <<st>>)
       ELSE /\ ServerFailed
            /\ logged' = logged
            /\ result' = [result EXCEPT ![p] = Raised("RollbackError")]
            /\ IF finallyOnFail
               THEN Release(p, <<st>>)
               ELSE ReleaseSkipped(p, <<st>>)
  /\ pc' = [pc EXCEPT ![p] = "Done"]
  /\ UNCHANGED <<uow, err>>

\* release() placed after the catch clause instead of in a finally clause.
RollbackNoFinally(p) == RollbackStep(p, FALSE)

Rollback(p) == RollbackStep(p, TRUE)

\* ------------------------------------------------------------ QueryBuilder
Cols == {"id"}
Vals == {"X", "Y"}
Keys == <<"a", "b", "c", "d">>
KeyVals == <<"1", "2", "3", "4">>

RECURSIVE SeqsUpTo(_, _)
SeqsUpTo(S, n) ==
  IF n = 0 THEN {<<>>}
  ELSE LET shorter == SeqsUpTo(S, n - 1)
       IN  shorter \cup {Append(s, x) : s \in {t \in shorter : Len(t) = n - 1},
                                         x \in S}

\* The records passed to insert() and update(): {a: "1"}, {a: "1", b: "2"},
\* ... as the sequence of their keys and values in key order.
Records ==
  {[i \in 1..k |-> [col |-> Keys[i], val |-> KeyVals[i]]] : k \in 1..MaxKeys}

\* The clauses only execute() writes: the projection, ORDER BY, LIMIT and
\* OFFSET. A clause left out of the text is the empty sequence.
NoTail == [columns |-> <<>>, orderBy |-> <<>>, limit |-> <<>>, offset |-> <<>>]

NoStatement ==
  [kind |-> "none", set |-> <<>>, where |-> <<>>, params |-> <<>>,
   tail |-> NoTail]
Statement(kind, set, where, params) ==
  [kind |-> kind, set |-> set, where |-> where, params |-> params,
   tail |-> NoTail]

RECURSIVE Flat(_)
\* The placeholders of a WHERE clause, in order of appearance.
Flat(conds) ==
  IF conds = <<>> THEN <<>> ELSE Head(conds).ph \o Flat(Tail(conds))

\* The placeholders of a whole statement, in order of appearance.
Placeholders(st) == [i \in DOMAIN st.set |-> st.set[i].ph] \o Flat(st.where)

\* What the database rejects whatever its state: an IN predicate with an
\* empty list, and a parameter array whose length is not the number of
\* parameters the statement refers to.
EmptyIn(st) ==
  \E i \in DOMAIN st.where : st.where[i].op = "IN" /\ st.where[i].ph = <<>>
Malformed(st) ==
  \/ EmptyIn(st)
  \/ {Placeholders(st)[i] : i \in DOMAIN Placeholders(st)}
       # 1..Len(st.params)

\* A result object not resolved yet; "absent" is a field the object of a
\* terminal operation does not have (count() has no data, execute() no
\* count).
Unsettled == [data |-> "absent", count |-> "absent", error |-> "absent"]

NoCalls == [select |-> <<>>, orderBy |-> <<>>, limit |-> <<>>, offset |-> <<>>]

\* The builder's fields other than the predicates.
shape == <<columns, orderByColumns, orderDirection, limitValue, offsetValue>>

InitQB ==
  /\ qpc = "building"
  /\ columns = <<"*">>
  /\ whereConditions = <<>>
  /\ whereParams = <<>>
  /\ orderByColumns = <<>>
  /\ orderDirection = "ASC"
  /\ limitValue = NullData
  /\ offsetValue = NullData
  /\ paramCount = 1
  /\ calls = <<>>
  /\ chained = NoCalls
  /\ counted = FALSE
  /\ sent = NoStatement
  /\ qresult = Unsettled

\* postgres.from(table): a fresh builder for the next call chain.
From ==
  /\ qpc \in {"done", "counted"}
  /\ qpc' = "building"
  /\ columns' = <<"*">>
  /\ whereConditions' = <<>>
  /\ whereParams' = <<>>
  /\ orderByColumns' = <<>>
  /\ orderDirection' = "ASC"
  /\ limitValue' = NullData
  /\ offsetValue' = NullData
  /\ paramCount' = 1
  /\ calls' = <<>>
  /\ chained' = NoCalls
  /\ counted' = FALSE
  /\ sent' = NoStatement
  /\ qresult' = Unsettled

\* eq, neq, gt, lt, gte, lte, like, ilike: one predicate, one placeholder.
SimpleFilter(op, col, v) ==
  /\ qpc = "building"
  /\ Len(calls) < MaxFilters
  /\ whereConditions' =
       Append(whereConditions, [col |-> col, op |-> op, ph |-> <<paramCount>>])
  /\ whereParams' = Append(whereParams, v)
  /\ paramCount' = paramCount + 1
  /\ calls' = Append(calls, [op |-> op, col |-> col, values |-> <<v>>])
  /\ UNCHANGED <<qpc, shape, chained, counted, sent, qresult>>

eq(col, v) == SimpleFilter("=", col, v)
neq(col, v) == SimpleFilter("!=", col, v)
gt(col, v) == SimpleFilter(">", col, v)
lt(col, v) == SimpleFilter("<", col, v)
gte(col, v) == SimpleFilter(">=", col, v)
lte(col, v) == SimpleFilter("<=", col, v)
like(col, v) == SimpleFilter("LIKE", col, v)
ilike(col, v) == SimpleFilter("ILIKE", col, v)

\* in(column, values): one placeholder per value, paramCount advanced by
\* the number of values.
InStep(col, values, advance) ==
  /\ qpc = "building"
  /\ Len(calls) < MaxFilters
  /\ whereConditions' =
       Append(whereConditions,
              [col |-> col, op |-> "IN",
               ph |-> [i \in 1..Len(values) |-> paramCount + i - 1]])
  /\ whereParams' = whereParams \o values
  /\ paramCount' = paramCount + advance
  /\ calls' = Append(calls, [op |-> "IN", col |-> col, values |-> values])
  /\ UNCHANGED <<qpc, shape, chained, counted, sent, qresult>>

\* paramCount advanced by one, as the single-value filters do.
InAdvancesByOne(col, values) == InStep(col, values, 1)

in(col, values) == InStep(col, values, Len(values))

\* The arguments the model passes to select(): a string (the default '*')
\* or an array of column names.
SelectArgs ==
  {[isString |-> TRUE, value |-> <<"*">>],
   [isString |-> FALSE, value |-> <<"id", "name">>]}
OrderCols == {"id", "name"}
Directions == {"omitted", "ASC", "DESC"}

\* select(columns): a string becomes a one-element array, an array is
\* taken as it is.
select(arg) ==
  /\ qpc = "building"
  /\ columns' = IF arg.isString THEN <<arg.value[1]>> ELSE arg.value
  /\ chained' = [chained EXCEPT !.select = <<arg.value>>]
  /\ UNCHANGED <<qpc, whereConditions, whereParams, orderByColumns,
                 orderDirection, limitValue, offsetValue, paramCount, calls,
                 counted, sent, qresult>>

\* orderBy(column, direction = 'ASC'): the sort key is set to the one
\* column (replace) or added after the earlier ones.
OrderByStep(col, dir, replace) ==
  /\ qpc = "building"
  /\ Len(chained.orderBy) < MaxOrderBy
  /\ orderByColumns' = IF replace THEN <<col>> ELSE Append(orderByColumns, col)
  /\ orderDirection' = IF dir = "omitted" THEN "ASC" ELSE dir
  /\ chained' = [chained EXCEPT
                   !.orderBy = Append(@, [col |-> col, dir |-> dir])]
  /\ UNCHANGED <<qpc, columns, whereConditions, whereParams, limitValue,
                 offsetValue, paramCount, calls, counted, sent, qresult>>

\* The column pushed onto orderByColumns, as the filters push predicates.
OrderByAppends(col, dir) == OrderByStep(col, dir, FALSE)

orderBy(col, dir) == OrderByStep(col, dir, TRUE)

\* limit(value)
limit(value) ==
  /\ qpc = "building"
  /\ limitValue' = Val(value)
  /\ chained' = [chained EXCEPT !.limit = <<value>>]
  /\ UNCHANGED <<qpc, columns, whereConditions, whereParams, orderByColumns,
                 orderDirection, offsetValue, paramCount, calls, counted,
                 sent, qresult>>

\* offset(value)
offset(value) ==
  /\ qpc = "building"
  /\ offsetValue' = Val(value)
  /\ chained' = [chained EXCEPT !.offset = <<value>>]
  /\ UNCHANGED <<qpc, columns, whereConditions, whereParams, orderByColumns,
                 orderDirection, limitValue, paramCount, calls, counted,
                 sent, qresult>>

\* single(): limitValue = 1
single ==
  /\ qpc = "building"
  /\ limitValue' = Val(1)
  /\ chained' = [chained EXCEPT !.limit = <<1>>]
  /\ UNCHANGED <<qpc, columns, whereConditions, whereParams, orderByColumns,
                 orderDirection, offsetValue, paramCount, calls, counted,
                 sent, qresult>>

\* client.query(query, params) of a terminal operation settles: the value
\* resolved on success, or the error caught and returned. A malformed
\* statement always fails.
Settle(st, onSuccess, onFailure, next) ==
  /\ qpc' = next
  /\ sent' = st
  /\ \E ok \in IF Malformed(st) THEN {FALSE} ELSE BOOLEAN :
       qresult' = IF ok THEN onSuccess ELSE onFailure
  /\ UNCHANGED <<calls, chained>>

\* The terminal operations resolving with {data, error}, called at one of
\* the given positions of the caller.
RunStep(positions, st, okData, failData) ==
  /\ qpc \in positions
  /\ Settle(st,
            [data |-> okData, count |-> "absent", error |-> "null"],
            [data |-> failData, count |-> "absent", error |-> "DbError"],
            "done")
  /\ UNCHANGED <<fields, counted>>

\* The catch clause returning the error next to the rows: { data, error }.
RunKeepsData(positions, st, okData) == RunStep(positions, st, okData, okData)

RunFrom(positions, st, okData) == RunStep(positions, st, okData, "null")

Run(st, okData) == RunFrom({"building"}, st, okData)

\* The text execute() appends after the WHERE clause, and its projection.
SelectTail ==
  [columns |-> columns,
   orderBy |-> IF Len(orderByColumns) > 0
               THEN <<[cols |-> orderByColumns, dir |-> orderDirection]>>
               ELSE <<>>,
   limit |-> IF limitValue # NullData THEN <<limitValue[2]>> ELSE <<>>,
   offset |-> IF offsetValue # NullData THEN <<offsetValue[2]>> ELSE <<>>]

\* execute(): SELECT columns ... [WHERE conditions] [ORDER BY] [LIMIT]
\* [OFFSET], bound to whereParams. The caller reaches it at the end of a
\* chain, or after a count() on the same instance has resolved.
execute ==
  RunFrom({"building", "counted"},
          [Statement("SELECT", <<>>, whereConditions, whereParams)
             EXCEPT !.tail = SelectTail],
          "rows")

\* count(): SELECT COUNT(*) ... [WHERE conditions], bound to whereParams;
\* resolves with {count, error}, count 0 on failure. The statement is built
\* in a local variable (keeps), or by overwriting the projection.
CountStep(keeps) ==
  /\ qpc = "building"
  /\ Settle(Statement("COUNT", <<>>, whereConditions, whereParams),
            [data |-> "absent", count |-> "n", error |-> "null"],
            [data |-> "absent", count |-> "0", error |-> "DbError"],
            "counted")
  /\ counted' = TRUE
  /\ columns' = IF keeps THEN columns ELSE <<"COUNT(*)">>
  /\ UNCHANGED <<whereConditions, whereParams, orderByColumns,
                 orderDirection, limitValue, offsetValue, paramCount>>

\* count() implemented as a projection: this.columns = ['COUNT(*)'].
CountOverwritesColumns == CountStep(FALSE)

count == CountStep(TRUE)

\* The statements insert(), update() and delete() compose on a builder b
\* (its whereConditions, whereParams and paramCount at the time of the call).
\* insert(data): placeholders $1..$k for the k values of the record.
InsertOf(data) ==
  Statement("INSERT",
            [i \in DOMAIN data |-> [col |-> data[i].col, ph |-> i]],
            <<>>,
            [i \in DOMAIN data |-> data[i].val])

\* update(data): SET col = $i for the k keys, then the accumulated
\* whereConditions as they stand (numbered from $1 by the filter calls),
\* bound to the k values followed by whereParams.
UpdateOf(b, data) ==
  Statement("UPDATE",
            [i \in DOMAIN data |-> [col |-> data[i].col, ph |-> i]],
            b.whereConditions,
            [i \in DOMAIN data |-> data[i].val]
              \o (IF Len(b.whereConditions) > 0 THEN b.whereParams ELSE <<>>))

\* delete(): DELETE ... [WHERE conditions], bound to whereParams.
DeleteOf(b) == Statement("DELETE", <<>>, b.whereConditions, b.whereParams)

\* The builder the method is called on.
This ==
  [whereConditions |-> whereConditions, whereParams |-> whereParams,
   paramCount |-> paramCount]

insert(data) == Run(InsertOf(data), "rows")

update(data) == Run(UpdateOf(This, data), "rows")

delete == Run(DeleteOf(This), "rows")

\* PostgresClient.query(text, params): the statement as given, through the
\* pool, resolving with {data, error}; no builder is involved.
query ==
  /\ calls = <<>>
  /\ Run(Statement("QUERY", <<>>, <<>>, <<>>), "rows")

\* ---------------------------------------------------------------- services
\* The CRUD services of dataService, profileService and authService, each on
\* its table; a row is its id and one more column (name, full_name,
\* password_hash).
Entities ==
  {"categories", "menu_items", "tables", "profiles", "users", "sessions"}
Ids == 1..(NumRows + 1)
Names == {"old", "new"}

NoDispatch == [table |-> "none", st |-> NoStatement]
NoCall == [svc |-> "none", id |-> 0, name |-> "none"]
Absent == <<"absent">>
NoOutcome == [data |-> Absent, success |-> "absent", error |-> "absent"]

\* return { data: null, error } / { success: false, error } / { error }
DataError(e) == [data |-> NullData, success |-> "absent", error |-> e]
SuccessError(e) == [data |-> Absent, success |-> "false", error |-> e]
OnlyError(e) == [data |-> Absent, success |-> "absent", error |-> e]

\* new QueryBuilder(table, pool): no predicate yet.
NewBuilder == [whereConditions |-> <<>>, whereParams |-> <<>>, paramCount |-> 1]

InitSvcOn(tables, referrers) ==
  /\ entity \in tables
  /\ referred \in referrers
  /\ wasReferred = {}
  /\ rows = [i \in 1..NumRows |-> "old"]
  /\ dispatched = NoDispatch
  /\ executed = "none"
  /\ call = NoCall
  /\ outcome = NoOutcome
  /\ snapshot = [i \in 1..NumRows |-> "old"]

\* this.client.query(query, values) inside the async insert/update/delete:
\* the statement is handed to the pool when the method is called, before
\* anything is chained on the promise the method returns.
Dispatch(tableName, st) ==
  /\ dispatched' = [table |-> tableName, st |-> st]
  /\ executed' = "pending"

\* A service call resolving with out.
Service(svc, id, name, out) ==
  /\ executed # "pending"
  /\ call' = [svc |-> svc, id |-> id, name |-> name]
  /\ outcome' = out
  /\ snapshot' = rows
  /\ wasReferred' = referred
  /\ UNCHANGED <<entity, rows, referred>>

\* from(t).insert(data).execute(): insert() sends the INSERT and returns a
\* promise; .execute on the promise is not a function, the TypeError is
\* caught by the service and returned.
InsertService(svc, tableName, name) ==
  \E id \in Ids \ DOMAIN rows :
    /\ Service(svc, id, name, DataError("TypeError"))
    /\ Dispatch(tableName,
                InsertOf(<<[col |-> "id", val |-> id],
                           [col |-> "name", val |-> name]>>))

\* from(t).update(data).eq('id', id).execute(): update() sends the UPDATE
\* composed on the new builder and returns a promise; .eq on the promise
\* is not a function.
UpdateService(svc, tableName, id, name, out) ==
  /\ Service(svc, id, name, out)
  /\ Dispatch(tableName,
              UpdateOf(NewBuilder, <<[col |-> "name", val |-> name]>>))

\* from(t).delete().eq('id', id).execute(), likewise.
DeleteService(svc, tableName, id, out) ==
  /\ Service(svc, id, "none", out)
  /\ Dispatch(tableName, DeleteOf(NewBuilder))

\* A service returning before it sends any mutating statement.
Refused(svc, id, out) ==
  /\ Service(svc, id, "none", out)
  /\ UNCHANGED <<dispatched, executed>>

\* The delete services: the count of the rows referring to id first (its
\* error, or a count above 0, returned), then the delete chain.
GuardedDelete(svc, tableName, id) ==
  \/ Refused(svc, id, SuccessError("DbError"))
  \/ id \in referred /\ Refused(svc, id, SuccessError("Associated"))
  \/ id \notin referred
       /\ DeleteService(svc, tableName, id, SuccessError("TypeError"))

addCategory(name) ==
  entity = "categories" /\ InsertService("addCategory", "categories", name)
addProfile(name) ==
  entity = "profiles" /\ InsertService("addProfile", "profiles", name)

updateCategory(id, name) ==
  /\ entity = "categories"
  /\ UpdateService("updateCategory", "categories", id, name,
                   DataError("TypeError"))
updateMenuItem(id, name) ==
  /\ entity = "menu_items"
  /\ UpdateService("updateMenuItem", "menu_items", id, name,
                   DataError("TypeError"))
updateTable(id, name) ==
  /\ entity = "tables"
  /\ UpdateService("updateTable", "tables", id, name, DataError("TypeError"))
updateProfile(id, name) ==
  /\ entity = "profiles"
  /\ UpdateService("updateProfile", "profiles", id, name,
                   DataError("TypeError"))

\* resetPassword(token, newPassword): the token looked up (none found: the
\* call refused), an expired token deleted, else the password of the
\* token's user (id) updated; both through a chain on a promise.
resetPassword(id, name) ==
  /\ entity = "users"
  /\ \/ Refused("resetPassword", id, SuccessError("InvalidToken"))
     \/ DeleteService("resetPassword", "password_resets", id,
                      SuccessError("TypeError"))
     \/ UpdateService("resetPassword", "users", id, name,
                      SuccessError("TypeError"))

deleteCategory(id) ==
  entity = "categories" /\ GuardedDelete("deleteCategory", "categories", id)
deleteMenuItem(id) ==
  entity = "menu_items" /\ GuardedDelete("deleteMenuItem", "menu_items", id)
deleteTable(id) ==
  entity = "tables" /\ GuardedDelete("deleteTable", "tables", id)
deleteProfile(id) ==
  entity = "profiles" /\ GuardedDelete("deleteProfile", "profiles", id)
signOut(id) ==
  /\ entity = "sessions"
  /\ DeleteService("signOut", "sessions", id, OnlyError("TypeError"))

\* The database: the value a statement binds to a placeholder, the rows its
\* WHERE clause selects (all of them when there is none), and its effect.
Bound(st, ph) == st.params[ph]
Selects(st, id) ==
  \A j \in DOMAIN st.where :
    (st.where[j].col = "id" /\ st.where[j].op = "=") =>
      Bound(st, st.where[j].ph[1]) = id
Effect(st, r) ==
  CASE st.kind = "INSERT" ->
         (Bound(st, st.set[1].ph) :> Bound(st, st.set[2].ph)) @@ r
    [] st.kind = "UPDATE" ->
         [i \in DOMAIN r |->
            IF Selects(st, i) THEN Bound(st, st.set[1].ph) ELSE r[i]]
    [] st.kind = "DELETE" ->
         [i \in {k \in DOMAIN r : ~Selects(st, k)} |-> r[i]]
    [] OTHER -> r

\* The pool runs the dispatched statement: it is executed, or rejected and
\* nothing changes. Whoever awaits the promise is the builder's own
\* try/catch; the service has returned already. Every foreign key of the
\* schema is ON DELETE SET NULL or CASCADE: a referred row can be deleted,
\* and nothing refers to it afterwards.
DbExecute ==
  /\ executed = "pending"
  /\ \E ok \in IF Malformed(dispatched.st) THEN {FALSE} ELSE BOOLEAN :
       /\ executed' = IF ok THEN "ok" ELSE "failed"
       /\ rows' = IF ok /\ dispatched.table = entity
                  THEN Effect(dispatched.st, rows) ELSE rows
  /\ referred' = referred \cap DOMAIN rows'
  /\ UNCHANGED <<entity, dispatched, call, outcome, snapshot, wasReferred>>

\* ---------------------------------------------------------- order services
\* createTableOrder, createManualOrder, updateOrderStatus and
\* registerOrderPayment: each is postgres.transaction(unit of work), the
\* unit of work sending its statements on the transaction's connection and
\* then calling fetchOrderById, which reads through the pool. The server
\* accepts BEGIN, COMMIT and ROLLBACK here (their failures are followed in
\* Spec); any other statement may be rejected.
Creates == {"createTableOrder", "createManualOrder"}
NoOrder == [svc |-> "none", id |-> 0, items |-> 0, table |-> 0]
TableIds == 1..NumTables
Row(tbl, id, item) == [tbl |-> tbl, order |-> id, item |-> item]
NotFetched == [data |-> Absent, error |-> "absent"]
OrderConns == 1..OrderPool

InitOrd ==
  /\ opc = [p \in Procs |-> "Idle"]
  /\ order = [p \in Procs |-> NoOrder]
  /\ holds = [p \in Procs |-> {}]
  /\ idle = OrderConns
  /\ written = [p \in Procs |-> {}]
  /\ stored = {}
  /\ failed = [p \in Procs |-> FALSE]
  /\ fetched = [p \in Procs |-> NotFetched]
  /\ answer = [p \in Procs |-> NoResult]
  /\ tableStatus = [t \in TableIds |-> "available"]

\* The service is called: postgres.transaction(...) awaits pool.connect().
Called(p, svc, id, n, tableId) ==
  /\ opc[p] = "Idle"
  /\ opc' = [opc EXCEPT ![p] = "Connect"]
  /\ order' = [order EXCEPT ![p] =
                 [svc |-> svc, id |-> id, items |-> n, table |-> tableId]]
  /\ UNCHANGED <<holds, idle, written, stored, failed, fetched, answer,
                 tableStatus>>

\* The order id is a fresh uuid (here the caller's number); tableId 0 is
\* an order without table.
createTableOrder(p, n, tableId) ==
  Called(p, "createTableOrder", p, n, tableId)
createManualOrder(p, n, tableId) ==
  Called(p, "createManualOrder", p, n, tableId)
updateOrderStatus(p, orderId) ==
  Called(p, "updateOrderStatus", orderId, 0, 0)
registerOrderPayment(p, orderId) ==
  Called(p, "registerOrderPayment", orderId, 0, 0)

\* pool.connect() resolves with an idle connection (the first of the
\* pool's idle list), BEGIN is executed and the unit of work is called.
OrderBegin(p) ==
  /\ opc[p] = "Connect"
  /\ \E c \in idle :
       /\ \A d \in idle : c <= d
       /\ idle' = idle \ {c}
       /\ holds' = [holds EXCEPT ![p] = {c}]
  /\ opc' = [opc EXCEPT ![p] = "First"]
  /\ UNCHANGED <<order, written, stored, failed, fetched, answer,
                 tableStatus>>

\* A statement of the unit of work rejected: client.query rejects, the
\* unit of work rethrows, transaction() catches and sends ROLLBACK.
Rejected(p) ==
  /\ failed' = [failed EXCEPT ![p] = TRUE]
  /\ opc' = [opc EXCEPT ![p] = "Rollback"]
  /\ UNCHANGED written

\* A statement of the unit of work executed, writing the rows w; the unit
\* of work goes on to next.
Executed(p, w, next) ==
  /\ written' = [written EXCEPT ![p] = @ \cup w]
  /\ opc' = [opc EXCEPT ![p] = next]
  /\ UNCHANGED failed

\* INSERT INTO orders. createTableOrder reads only `error` of the resolved
\* value and goes on. createManualOrder reads `data` too: the value is pg's
\* result object, which has rows and no data, so !createdOrderData holds
\* and the unit of work throws.
InsertOrder(p) ==
  /\ opc[p] = "First"
  /\ order[p].svc \in Creates
  /\ \/ Rejected(p)
     \/ Executed(p, {Row("orders", order[p].id, 0)},
                 IF order[p].svc = "createManualOrder" THEN "Rollback"
                 ELSE IF order[p].items > 0 THEN "Items" ELSE "Table")
  /\ UNCHANGED <<order, holds, idle, stored, fetched, answer, tableStatus>>

\* SELECT * FROM orders WHERE id = $1 of updateOrderStatus: `data` of the
\* resolved value is read, undefined, and the unit of work throws.
SelectOrder(p) ==
  /\ opc[p] = "First"
  /\ order[p].svc = "updateOrderStatus"
  /\ \/ Rejected(p)
     \/ Executed(p, {}, "Rollback")
  /\ UNCHANGED <<order, holds, idle, stored, fetched, answer, tableStatus>>

\* UPDATE orders SET payment_method ... of registerOrderPayment.
UpdatePayment(p) ==
  /\ opc[p] = "First"
  /\ order[p].svc = "registerOrderPayment"
  /\ \/ Rejected(p)
     \/ Executed(p, {Row("payments", order[p].id, 0)}, "FetchOrder")
  /\ UNCHANGED <<order, holds, idle, stored, fetched, answer, tableStatus>>

\* INSERT INTO order_items, once per item.
ItemsWritten(p) ==
  Cardinality({w \in written[p] : w.tbl = "order_items"})
InsertItem(p) ==
  /\ opc[p] = "Items"
  /\ \/ Rejected(p)
     \/ Executed(p, {Row("order_items", order[p].id, ItemsWritten(p) + 1)},
                 IF ItemsWritten(p) + 1 < order[p].items THEN "Items"
                 ELSE "Table")
  /\ UNCHANGED <<order, holds, idle, stored, fetched, answer, tableStatus>>

\* UPDATE tables SET status = 'occupied' WHERE id = tableId of
\* createTableOrder, writing w in the transaction.
UpdateTableStep(p, w) ==
  /\ opc[p] = "Table"
  /\ \/ Rejected(p)
     \/ Executed(p, w, "FetchOrder")
  /\ UNCHANGED <<order, holds, idle, stored, fetched, answer, tableStatus>>

UpdateTableSkipped(p) == UpdateTableStep(p, {})
UpdateTable(p) == UpdateTableStep(p, {Row("tables", order[p].id, 0)})

\* fetchOrderById, first read: postgres.from('orders')...execute() goes
\* through the pool, so it needs an idle connection and sees committed rows
\* only. On error {data: null, error} is returned to the unit of work.
FetchOrder(p) ==
  /\ opc[p] = "FetchOrder"
  /\ idle # {}
  /\ \/ /\ fetched' = [fetched EXCEPT ![p] =
                         [data |-> Val([order |-> Row("orders", order[p].id, 0)
                                                    \in stored,
                                        items |-> <<>>]),
                          error |-> "null"]]
        /\ opc' = [opc EXCEPT ![p] = "FetchItems"]
     \/ /\ fetched' = [fetched EXCEPT ![p] =
                         [data |-> NullData, error |-> "DbError"]]
        /\ opc' = [opc EXCEPT ![p] = "Commit"]
  /\ UNCHANGED <<order, holds, idle, written, stored, failed, answer,
                 tableStatus>>

\* fetchOrderById, second read: the order's items, through the pool. On
\* error the order is returned without items.
FetchItems(p) ==
  /\ opc[p] = "FetchItems"
  /\ idle # {}
  /\ \/ fetched' =
          [fetched EXCEPT ![p].data =
             Val([@[2] EXCEPT !.items =
                    <<Cardinality({w \in stored :
                         w.tbl = "order_items" /\ w.order = order[p].id})>>])]
     \/ UNCHANGED fetched
  /\ opc' = [opc EXCEPT ![p] = "Commit"]
  /\ UNCHANGED <<order, holds, idle, written, stored, failed, answer,
                 tableStatus>>

\* The unit of work returned: COMMIT, {data: its value, error: null}, and
\* the connection released.
OrderCommit(p) ==
  /\ opc[p] = "Commit"
  /\ stored' = stored \cup written[p]
  /\ tableStatus' =
       [t \in TableIds |->
          IF t = order[p].table /\ Row("tables", order[p].id, 0) \in written[p]
          THEN "occupied" ELSE tableStatus[t]]
  /\ written' = [written EXCEPT ![p] = {}]
  /\ idle' = idle \cup holds[p]
  /\ holds' = [holds EXCEPT ![p] = {}]
  /\ answer' = [answer EXCEPT ![p] = Returned(Val(fetched[p]), "null")]
  /\ opc' = [opc EXCEPT ![p] = "Done"]
  /\ UNCHANGED <<order, failed, fetched>>

\* The unit of work threw: ROLLBACK, {data: null, error}, and the
\* connection released.
OrderRollback(p) ==
  /\ opc[p] = "Rollback"
  /\ written' = [written EXCEPT ![p] = {}]
  /\ idle' = idle \cup holds[p]
  /\ holds' = [holds EXCEPT ![p] = {}]
  /\ answer' = [answer EXCEPT ![p] = Returned(NullData, "UowError")]
  /\ opc' = [opc EXCEPT ![p] = "Done"]
  /\ UNCHANGED <<order, stored, failed, fetched, tableStatus>>

\* ------------------------------------------------------ cash register
\* openCashRegister and closeCashRegister of the cash service. A session id
\* is a fresh uuid (here the next unused number), a balance a number of
\* 0..MaxBalance, a column of a row null or a value.
SessionIds == 1..MaxSessions
Balances == 0..MaxBalance

\* JavaScript values as the services test them: null is falsy, an array
\* (even an empty one) and an object are truthy; a property an array does
\* not have reads as undefined.
JsArray(s) == <<"array", s>>
Truthy(v) == v # NullData
Prop(v, f) == IF v[1] = "object" THEN v[2][f] ELSE "undefined"

NoCashCall == [svc |-> "none", id |-> 0, amount |-> 0, readOk |-> FALSE]
NoCashOut == [data |-> Absent, error |-> "absent"]

InitCash ==
  /\ cash = <<>>
  /\ cashSent = {}
  /\ cashCall = NoCashCall
  /\ cashOut = NoCashOut
  /\ cashBefore = <<>>

\* A cash service call resolving with data and error.
CashService(svc, id, amount, readOk, data, error) ==
  /\ cashCall' = [svc |-> svc, id |-> id, amount |-> amount, readOk |-> readOk]
  /\ cashOut' = [data |-> data, error |-> error]
  /\ cashBefore' = cash
  /\ UNCHANGED cash

\* execute() of a select chain: {data: the rows, error: null}, or
\* {data: null, error} when the query is rejected. single() only adds
\* LIMIT 1: data is still an array, of at most one row.
Selected(ok, matching) ==
  IF ~ok THEN {NullData}
  ELSE IF matching = {} THEN {JsArray(<<>>)}
  ELSE {JsArray(<<cash[i]>>) : i \in matching}

\* fetchActiveCashSession: the sessions with status OPEN, LIMIT 1; on error
\* data is null.
fetchActiveCashSession(ok) ==
  Selected(ok, {i \in DOMAIN cash : cash[i].status = "OPEN"})

sessionData(id, openingBalance) ==
  [id |-> id, opening_balance |-> Val(openingBalance),
   closing_balance |-> NullData, closing_balance_informed |-> NullData,
   closed_at |-> NullData, status |-> "OPEN", difference |-> NullData]

\* openCashRegister(openingBalance): refused when activeSession is truthy;
\* else from(..).insert(sessionData).execute(): insert() sends the INSERT
\* and returns a promise, .execute on it throws, the catch returns the
\* TypeError.
openCashRegister(openingBalance) ==
  \E ok \in BOOLEAN : \E activeSession \in fetchActiveCashSession(ok) :
    IF Truthy(activeSession)
    THEN /\ CashService("openCashRegister", 0, openingBalance, ok,
                        NullData, "AlreadyOpen")
         /\ UNCHANGED cashSent
    ELSE \E id \in SessionIds \ (DOMAIN cash \cup {q.id : q \in cashSent}) :
           /\ CashService("openCashRegister", id, openingBalance, ok,
                          NullData, "TypeError")
           /\ cashSent' = cashSent \cup
                [kind : {"INSERT"}, id : {id},
                 row : {sessionData(id, openingBalance)}]

\* closeCashRegister(sessionId, closingBalanceInformed): the session read
\* by id with single(); an error or a falsy sessionData returned as an
\* error; sessionData.status other than OPEN returned as "already closed";
\* else updateData composed and from(..).update(updateData).eq(..): the
\* UPDATE is sent without WHERE clause and .eq on the promise throws.
updateData(row, closingBalanceInformed) ==
  [row EXCEPT !.closing_balance = Val(closingBalanceInformed),
              !.closing_balance_informed = Val(closingBalanceInformed),
              !.closed_at = Val("now"),
              !.status = "CLOSED",
              !.difference =
                 Val(closingBalanceInformed - closingBalanceInformed)]
closeCashRegister(sessionId, closingBalanceInformed) ==
  \E ok \in BOOLEAN :
    \E data \in Selected(ok, {i \in DOMAIN cash : i = sessionId}) :
      IF ~ok \/ ~Truthy(data)
      THEN /\ CashService("closeCashRegister", sessionId,
                          closingBalanceInformed, ok, NullData,
                          IF ok THEN "NotFound" ELSE "DbError")
           /\ UNCHANGED cashSent
      ELSE IF Prop(data, "status") # "OPEN"
      THEN /\ CashService("closeCashRegister", sessionId,
                          closingBalanceInformed, ok, NullData,
                          "AlreadyClosed")
           /\ UNCHANGED cashSent
      ELSE /\ CashService("closeCashRegister", sessionId,
                          closingBalanceInformed, ok, NullData, "TypeError")
           /\ cashSent' = cashSent \cup
                [kind : {"UPDATE"}, id : {sessionId},
                 row : {updateData(data[2], closingBalanceInformed)}]

\* The pool settles one statement: an INSERT adds its row, an UPDATE
\* without WHERE clause sets the columns of updateData in every row; a
\* rejected statement changes nothing.
CashEffect(q) ==
  IF q.kind = "INSERT" THEN (q.id :> q.row) @@ cash
  ELSE [i \in DOMAIN cash |->
          [q.row EXCEPT !.id = i,
                        !.opening_balance = cash[i].opening_balance]]
CashDbExecute ==
  \E q \in cashSent : \E ok \in BOOLEAN :
    /\ cashSent' = cashSent \ {q}
    /\ cash' = IF ok THEN CashEffect(q) ELSE cash
    /\ UNCHANGED <<cashCall, cashOut, cashBefore>>

\* --------------------------------------------------------------- auth
\* signUp, signIn, signOut, getSession, requestPasswordReset and
\* resetPassword of the auth service. Ids and tokens are fresh uuids (here
\* numbers); bcrypt.hash is Hash (the salt left out) and bcrypt.compare
\* tests against it.
UserIds == 1..NumUsers
LoginIds == 1..MaxLogins
Tokens == 1..MaxTokens
Emails == {"a", "b"}
Passwords == {"p0", "p1"}
Hash(password) == <<"hash", password>>
Compare(password, hash) == hash = Hash(password)

NoAuthCall == [svc |-> "none", id |-> 0, email |-> "none", readOk |-> FALSE]
NoAuthOut ==
  [user |-> Absent, session |-> Absent, success |-> "absent",
   error |-> "absent"]
\* { user: null, session: null, error }, the shape signUp, signIn and
\* getSession return on every failure; { success, error } of the password
\* services; { error } of signOut.
AuthError(e) ==
  [user |-> NullData, session |-> NullData, success |-> "absent", error |-> e]
AuthSuccess(ok, e) ==
  [user |-> Absent, session |-> Absent, success |-> ok, error |-> e]
AuthOnlyError(e) ==
  [user |-> Absent, session |-> Absent, success |-> "absent", error |-> e]

\* A statement as the pool gets it. No statement of the auth service that
\* a promise chain sends has a WHERE clause: the .eq comes after. late:
\* a password update sent for a token whose expires_at had passed.
AuthStatement(kind, tbl, id, user, email, hash) ==
  [kind |-> kind, tbl |-> tbl, id |-> id, user |-> user, email |-> email,
   hash |-> hash, late |-> kind = "UPDATE" /\ id \in stale]

\* The database before the first call: one user, no session, and at most
\* one reset token, of that user.
InitAuthWith(tokenSets) ==
  /\ users = (1 :> [email |-> "a", password_hash |-> Hash("p0")])
  /\ sess = <<>>
  /\ \E T \in tokenSets : resets = [t \in T |-> [user_id |-> 1]]
  /\ authSent = {}
  /\ authCall = NoAuthCall
  /\ authOut = NoAuthOut
  /\ created = {}
  /\ accepted = {}
  /\ signedOut = {}
  /\ lapsed = {}
  /\ stale = {}
  /\ uses = [t \in Tokens |-> 0]

\* An auth service call resolving with out, having sent the statements q.
AuthService(svc, id, email, readOk, out, q) ==
  /\ Cardinality(authSent \cup q) <= MaxInFlight
  /\ authCall' = [svc |-> svc, id |-> id, email |-> email, readOk |-> readOk]
  /\ authOut' = out
  /\ authSent' = authSent \cup q
  /\ UNCHANGED <<users, sess, resets, created, lapsed, stale, uses>>

WithEmail(email) == {u \in DOMAIN users : users[u].email = email}
InFlight(tbl) == {q.id : q \in {r \in authSent : r.tbl = tbl}}

\* signUp: refused when the read finds the email; else the INSERT into
\* users is sent by insert() and .execute() on the promise throws.
signUp(email, password) ==
  /\ \E ok \in BOOLEAN :
       IF ok /\ WithEmail(email) # {}
       THEN AuthService("signUp", 0, email, ok, AuthError("EmailInUse"), {})
       ELSE \E id \in UserIds \ (DOMAIN users \cup InFlight("users")) :
              AuthService("signUp", id, email, ok, AuthError("TypeError"),
                          {AuthStatement("INSERT", "users", id, id, email,
                                         Hash(password))})
  /\ UNCHANGED <<accepted, signedOut>>

\* signIn: the user read by email and the password compared; then the
\* INSERT into sessions is sent and .execute() on the promise throws.
signIn(email, password) ==
  /\ \E ok \in BOOLEAN :
       IF ~ok \/ WithEmail(email) = {}
       THEN AuthService("signIn", 0, email, ok,
                        AuthError("BadCredentials"), {})
       ELSE \E u \in WithEmail(email) :
              IF ~Compare(password, users[u].password_hash)
              THEN AuthService("signIn", 0, email, ok,
                               AuthError("BadCredentials"), {})
              ELSE \E id \in LoginIds \ (created \cup InFlight("sessions")) :
                     AuthService("signIn", id, email, ok,
                                 AuthError("TypeError"),
                                 {AuthStatement("INSERT", "sessions", id, u,
                                                email, <<>>)})
  /\ UNCHANGED <<accepted, signedOut>>

\* signOut(sessionId): delete() sends DELETE FROM sessions, .eq on the
\* promise throws.
signOutSession(sessionId) ==
  /\ AuthService("signOut", sessionId, "none", TRUE,
                 AuthOnlyError("TypeError"),
                 {AuthStatement("DELETE", "sessions", 0, 0, "none", <<>>)})
  /\ signedOut' = signedOut \cup {sessionId}
  /\ UNCHANGED accepted

\* getSession(sessionId): not found or read error refused; an expired
\* session sends DELETE FROM sessions and the chain throws; else the user
\* is read and returned without password_hash, with the session.
getSession(sessionId) ==
  /\ \E ok \in BOOLEAN :
       IF ~ok \/ sessionId \notin DOMAIN sess
       THEN AuthService("getSession", sessionId, "none", ok,
                        AuthError("NotFound"), {})
       ELSE IF sessionId \in lapsed
       THEN AuthService("getSession", sessionId, "none", ok,
                        AuthError("TypeError"),
                        {AuthStatement("DELETE", "sessions", 0, 0, "none",
                                       <<>>)})
       ELSE \E userOk \in BOOLEAN :
              IF ~userOk \/ sess[sessionId].user_id \notin DOMAIN users
              THEN AuthService("getSession", sessionId, "none", ok,
                               AuthError("UserNotFound"), {})
              ELSE AuthService(
                     "getSession", sessionId, "none", ok,
                     [user |-> Val([id |-> sess[sessionId].user_id,
                                    email |->
                                      users[sess[sessionId].user_id].email]),
                      session |-> Val(sessionId), success |-> "absent",
                      error |-> "null"], {})
  /\ accepted' = IF authOut'.error = "null"
                 THEN accepted \cup {sessionId} ELSE accepted
  /\ UNCHANGED signedOut

\* requestPasswordReset(email): no user found (or the read failed):
\* {success: true, error: null}. Else delete() sends DELETE FROM
\* password_resets, .eq on the promise throws and the catch returns
\* {success: false, error}; the INSERT of the new token is not reached.
requestPasswordReset(email) ==
  /\ \E ok \in BOOLEAN :
       IF ~ok \/ WithEmail(email) = {}
       THEN AuthService("requestPasswordReset", 0, email, ok,
                        AuthSuccess("true", "null"), {})
       ELSE AuthService("requestPasswordReset", 0, email, ok,
                        AuthSuccess("false", "TypeError"),
                        {AuthStatement("DELETE", "password_resets", 0, 0,
                                       email, <<>>)})
  /\ UNCHANGED <<accepted, signedOut>>

\* resetPassword(token, newPassword): token not found refused; an expired
\* token sends DELETE FROM password_resets; else update() sends UPDATE
\* users SET password_hash and .eq on the promise throws: the delete of the
\* used token is not reached.
resetPasswordWith(token, newPassword) ==
  /\ uses[token]
       + Cardinality({q \in authSent : q.kind = "UPDATE" /\ q.id = token})
       < MaxUses
  /\ \E ok \in BOOLEAN :
       IF ~ok \/ token \notin DOMAIN resets
       THEN AuthService("resetPassword", token, "none", ok,
                        AuthSuccess("false", "InvalidToken"), {})
       ELSE IF token \in stale
       THEN AuthService("resetPassword", token, "none", ok,
                        AuthSuccess("false", "TypeError"),
                        {AuthStatement("DELETE", "password_resets", 0, 0,
                                       "none", <<>>)})
       ELSE AuthService("resetPassword", token, "none", ok,
                        AuthSuccess("false", "TypeError"),
                        {AuthStatement("UPDATE", "users", token,
                                       resets[token].user_id, "none",
                                       Hash(newPassword))})
  /\ UNCHANGED <<accepted, signedOut>>

\* Time passes expires_at of a session or of a token.
SessionExpires(s) ==
  /\ s \in DOMAIN sess \ lapsed
  /\ lapsed' = lapsed \cup {s}
  /\ UNCHANGED <<users, sess, resets, authSent, authCall, authOut, created,
                 accepted, signedOut, stale, uses>>
TokenExpires(t) ==
  /\ t \in DOMAIN resets \ stale
  /\ stale' = stale \cup {t}
  /\ UNCHANGED <<users, sess, resets, authSent, authCall, authOut, created,
                 accepted, signedOut, lapsed, uses>>

\* The pool settles one statement. users.email is UNIQUE: an INSERT of a
\* used email is rejected. A DELETE or UPDATE without WHERE clause takes
\* every row of its table.
AuthAccepts(q) ==
  ~(q.kind = "INSERT" /\ q.tbl = "users" /\ WithEmail(q.email) # {})
AuthDbExecute ==
  \E q \in authSent : \E ok \in IF AuthAccepts(q) THEN BOOLEAN ELSE {FALSE} :
    /\ authSent' = authSent \ {q}
    /\ users' =
         IF ~ok \/ q.tbl # "users" THEN users
         ELSE IF q.kind = "INSERT"
         THEN (q.id :> [email |-> q.email, password_hash |-> q.hash]) @@ users
         ELSE [u \in DOMAIN users |-> [users[u] EXCEPT !.password_hash = q.hash]]
    /\ sess' =
         IF ~ok \/ q.tbl # "sessions" THEN sess
         ELSE IF q.kind = "INSERT" THEN (q.id :> [user_id |-> q.user]) @@ sess
         ELSE <<>>
    /\ resets' = IF ok /\ q.tbl = "password_resets" THEN <<>> ELSE resets
    /\ created' = IF ok /\ q.tbl = "sessions" /\ q.kind = "INSERT"
                  THEN created \cup {q.id} ELSE created
    /\ uses' = IF ok /\ q.kind = "UPDATE"
               THEN [uses EXCEPT ![q.id] = @ + 1] ELSE uses
    /\ UNCHANGED <<authCall, authOut, accepted, signedOut, lapsed, stale>>

\* ---------------------------------------------------------- specifications
vars == <<txVars, qbVars, svcVars, ordVars, cashVars, authVars>>

\* What the actions of one part of the program leave alone.
notTx == <<qbVars, svcVars, ordVars, cashVars, authVars>>
notQB == <<txVars, svcVars, ordVars, cashVars, authVars>>
notSvc == <<txVars, qbVars, ordVars, cashVars, authVars>>
notOrd == <<txVars, qbVars, svcVars, cashVars, authVars>>
notCash == <<txVars, qbVars, svcVars, ordVars, authVars>>
notAuth == <<txVars, qbVars, svcVars, ordVars, cashVars>>

Init ==
  /\ InitTx /\ InitQB /\ InitSvcOn({"categories"}, {{}})
  /\ InitOrd /\ InitCash /\ InitAuthWith({{}})

\* Concurrent transaction() invocations; no builder is in use.
Next ==
  \E p \in Procs :
    \/ Start(p) /\ UNCHANGED notTx
    \/ ConnectOk(p) /\ UNCHANGED notTx
    \/ ConnectFail(p) /\ UNCHANGED notTx
    \/ Begin(p) /\ UNCHANGED notTx
    \/ UowInsert(p) /\ UNCHANGED notTx
    \/ UowRaise(p) /\ UNCHANGED notTx
    \/ UowReturn(p) /\ UNCHANGED notTx
    \/ Commit(p) /\ UNCHANGED notTx
    \/ Rollback(p) /\ UNCHANGED notTx

Spec == Init /\ [][Next]_vars

\* One builder at a time: a call chain, its terminal operation, the next.
NextQB ==
  \/ From /\ UNCHANGED notQB
  \/ \E col \in Cols, v \in Vals :
       \/ eq(col, v) /\ UNCHANGED notQB
       \/ neq(col, v) /\ UNCHANGED notQB
       \/ gt(col, v) /\ UNCHANGED notQB
       \/ lt(col, v) /\ UNCHANGED notQB
       \/ gte(col, v) /\ UNCHANGED notQB
       \/ lte(col, v) /\ UNCHANGED notQB
       \/ like(col, v) /\ UNCHANGED notQB
       \/ ilike(col, v) /\ UNCHANGED notQB
  \/ \E col \in Cols, values \in SeqsUpTo(Vals, MaxIn) :
       in(col, values) /\ UNCHANGED notQB
  \/ execute /\ UNCHANGED notQB
  \/ count /\ UNCHANGED notQB
  \/ \E data \in Records : insert(data) /\ UNCHANGED notQB
  \/ \E data \in Records : update(data) /\ UNCHANGED notQB
  \/ delete /\ UNCHANGED notQB

SpecQB == Init /\ [][NextQB]_vars

\* The client used by one caller, one operation after the other: a builder
\* chain and its terminal operation, a direct query(), or a transaction().
Caller == CHOOSE p \in Procs : TRUE
Fresh == qpc = "building" /\ calls = <<>>
NoTransaction == \A p \in Procs : pc[p] = "Idle"

NextAPI ==
  \/ NoTransaction /\ From /\ UNCHANGED notQB
  \/ \E col \in Cols, v \in Vals :
       \/ NoTransaction /\ eq(col, v) /\ UNCHANGED notQB
       \/ NoTransaction /\ neq(col, v) /\ UNCHANGED notQB
       \/ NoTransaction /\ gt(col, v) /\ UNCHANGED notQB
       \/ NoTransaction /\ lt(col, v) /\ UNCHANGED notQB
       \/ NoTransaction /\ gte(col, v) /\ UNCHANGED notQB
       \/ NoTransaction /\ lte(col, v) /\ UNCHANGED notQB
       \/ NoTransaction /\ like(col, v) /\ UNCHANGED notQB
       \/ NoTransaction /\ ilike(col, v) /\ UNCHANGED notQB
  \/ \E col \in Cols, values \in SeqsUpTo(Vals, MaxIn) :
       NoTransaction /\ in(col, values) /\ UNCHANGED notQB
  \/ NoTransaction /\ execute /\ UNCHANGED notQB
  \/ NoTransaction /\ count /\ UNCHANGED notQB
  \/ \E data \in Records : NoTransaction /\ insert(data) /\ UNCHANGED notQB
  \/ \E data \in Records : NoTransaction /\ update(data) /\ UNCHANGED notQB
  \/ NoTransaction /\ delete /\ UNCHANGED notQB
  \/ NoTransaction /\ query /\ UNCHANGED notQB
  \/ \E p \in {Caller} :
       \/ Fresh /\ Start(p) /\ UNCHANGED notTx
       \/ ConnectOk(p) /\ UNCHANGED notTx
       \/ ConnectFail(p) /\ UNCHANGED notTx
       \/ Begin(p) /\ UNCHANGED notTx
       \/ UowInsert(p) /\ UNCHANGED notTx
       \/ UowRaise(p) /\ UNCHANGED notTx
       \/ UowReturn(p) /\ UNCHANGED notTx
       \/ Commit(p) /\ UNCHANGED notTx
       \/ Rollback(p) /\ UNCHANGED notTx

SpecAPI == Init /\ [][NextAPI]_vars

\* One builder at a time: projection, predicates, order and paging chained
\* in any order, count() and then possibly execute() on the same instance.
NextPage ==
  \/ From /\ UNCHANGED notQB
  \/ \E arg \in SelectArgs : select(arg) /\ UNCHANGED notQB
  \/ \E col \in Cols, v \in Vals : eq(col, v) /\ UNCHANGED notQB
  \/ \E col \in OrderCols, dir \in Directions :
       orderBy(col, dir) /\ UNCHANGED notQB
  \/ \E value \in 1..MaxPage : limit(value) /\ UNCHANGED notQB
  \/ \E value \in 1..MaxPage : offset(value) /\ UNCHANGED notQB
  \/ single /\ UNCHANGED notQB
  \/ count /\ UNCHANGED notQB
  \/ execute /\ UNCHANGED notQB

SpecPage == Init /\ [][NextPage]_vars

\* The services of one table called one after the other, the database
\* settling the statement each of them dispatched.
InitServices ==
  /\ InitTx /\ InitQB /\ InitSvcOn(Entities, SUBSET (1..NumRows))
  /\ InitOrd /\ InitCash /\ InitAuthWith({{}})

NextSvc ==
  \/ \E name \in Names :
       \/ addCategory(name) /\ UNCHANGED notSvc
       \/ addProfile(name) /\ UNCHANGED notSvc
  \/ \E id \in Ids, name \in Names :
       \/ updateCategory(id, name) /\ UNCHANGED notSvc
       \/ updateMenuItem(id, name) /\ UNCHANGED notSvc
       \/ updateTable(id, name) /\ UNCHANGED notSvc
       \/ updateProfile(id, name) /\ UNCHANGED notSvc
       \/ resetPassword(id, name) /\ UNCHANGED notSvc
  \/ \E id \in Ids :
       \/ deleteCategory(id) /\ UNCHANGED notSvc
       \/ deleteMenuItem(id) /\ UNCHANGED notSvc
       \/ deleteTable(id) /\ UNCHANGED notSvc
       \/ deleteProfile(id) /\ UNCHANGED notSvc
       \/ signOut(id) /\ UNCHANGED notSvc
  \/ DbExecute /\ UNCHANGED notSvc

SpecSvc == InitServices /\ [][NextSvc]_vars

\* Concurrent calls of the order services over the bounded pool.
NextOrders ==
  \E p \in Procs :
    \/ \E n \in 1..MaxItems, tableId \in TableIds :
         createTableOrder(p, n, tableId) /\ UNCHANGED notOrd
    \/ \E n \in 1..MaxItems, tableId \in {0} \cup TableIds :
         createManualOrder(p, n, tableId) /\ UNCHANGED notOrd
    \/ \E orderId \in Procs : updateOrderStatus(p, orderId) /\ UNCHANGED notOrd
    \/ \E orderId \in Procs :
         registerOrderPayment(p, orderId) /\ UNCHANGED notOrd
    \/ OrderBegin(p) /\ UNCHANGED notOrd
    \/ InsertOrder(p) /\ UNCHANGED notOrd
    \/ SelectOrder(p) /\ UNCHANGED notOrd
    \/ UpdatePayment(p) /\ UNCHANGED notOrd
    \/ InsertItem(p) /\ UNCHANGED notOrd
    \/ UpdateTable(p) /\ UNCHANGED notOrd
    \/ FetchOrder(p) /\ UNCHANGED notOrd
    \/ FetchItems(p) /\ UNCHANGED notOrd
    \/ OrderCommit(p) /\ UNCHANGED notOrd
    \/ OrderRollback(p) /\ UNCHANGED notOrd

SpecOrders == Init /\ [][NextOrders]_vars

\* createTableOrder, createManualOrder and updateOrderStatus called one
\* after the other: a call starts when no other call is under way.
Alone(p) == \A q \in Procs \ {p} : opc[q] \in {"Idle", "Done"}

NextTables ==
  \E p \in Procs :
    \/ \E n \in 1..MaxItems, tableId \in TableIds :
         Alone(p) /\ createTableOrder(p, n, tableId) /\ UNCHANGED notOrd
    \/ \E n \in 1..MaxItems, tableId \in {0} \cup TableIds :
         Alone(p) /\ createManualOrder(p, n, tableId) /\ UNCHANGED notOrd
    \/ \E orderId \in Procs :
         Alone(p) /\ updateOrderStatus(p, orderId) /\ UNCHANGED notOrd
    \/ OrderBegin(p) /\ UNCHANGED notOrd
    \/ InsertOrder(p) /\ UNCHANGED notOrd
    \/ SelectOrder(p) /\ UNCHANGED notOrd
    \/ InsertItem(p) /\ UNCHANGED notOrd
    \/ UpdateTable(p) /\ UNCHANGED notOrd
    \/ FetchOrder(p) /\ UNCHANGED notOrd
    \/ FetchItems(p) /\ UNCHANGED notOrd
    \/ OrderCommit(p) /\ UNCHANGED notOrd
    \/ OrderRollback(p) /\ UNCHANGED notOrd

SpecTables == Init /\ [][NextTables]_vars

\* The cash register services called one after the other, the database
\* settling the statements they sent in any order.
NextCash ==
  \/ \E openingBalance \in Balances :
       openCashRegister(openingBalance) /\ UNCHANGED notCash
  \/ \E sessionId \in SessionIds, closingBalanceInformed \in Balances :
       closeCashRegister(sessionId, closingBalanceInformed)
         /\ UNCHANGED notCash
  \/ CashDbExecute /\ UNCHANGED notCash

SpecCash == Init /\ [][NextCash]_vars

\* The auth services called one after the other while time passes, the
\* database settling the statements they sent in any order.
InitAuthDb ==
  /\ InitTx /\ InitQB /\ InitSvcOn({"categories"}, {{}})
  /\ InitOrd /\ InitCash
  /\ InitAuthWith({T \in SUBSET Tokens : Cardinality(T) <= 1})

NextAuth ==
  \/ \E email \in Emails, password \in Passwords :
       \/ signUp(email, password) /\ UNCHANGED notAuth
       \/ signIn(email, password) /\ UNCHANGED notAuth
  \/ \E sessionId \in LoginIds :
       \/ signOutSession(sessionId) /\ UNCHANGED notAuth
       \/ getSession(sessionId) /\ UNCHANGED notAuth
       \/ SessionExpires(sessionId) /\ UNCHANGED notAuth
  \/ AuthDbExecute /\ UNCHANGED notAuth

SpecAuth == Init /\ [][NextAuth]_vars

\* The password services, on a database that may hold a reset token.
NextReset ==
  \/ \E email \in Emails, password \in Passwords :
       signUp(email, password) /\ UNCHANGED notAuth
  \/ \E email \in Emails : requestPasswordReset(email) /\ UNCHANGED notAuth
  \/ \E token \in Tokens :
       \/ \E newPassword \in Passwords :
            resetPasswordWith(token, newPassword) /\ UNCHANGED notAuth
       \/ TokenExpires(token) /\ UNCHANGED notAuth
  \/ AuthDbExecute /\ UNCHANGED notAuth

SpecReset == InitAuthDb /\ [][NextReset]_vars

\* ------------------------------------------------------------------------
\* Properties of the transaction coordinator (checked under Spec)
\* ------------------------------------------------------------------------
Count(s, op) == Cardinality({i \in DOMAIN s : s[i].op = op})
Has(p, op, ok) == \E i \in DOMAIN log[p] : log[p][i].op = op /\ log[p][i].ok = ok
Issued(p, op) == \E i \in DOMAIN log[p] : log[p][i].op = op
CheckedOut(p) == Issued(p, "CONNECT")
RowSet(p) == {RowsOf(log[p])[i] : i \in 1..Inserted(p)}
Quiet == \A p \in Procs : pc[p] \in {"Idle", "Done"}

\* C1: every invocation whose checkout succeeded has released its connection
\* exactly once by the time it finishes, on every path (commit, rollback,
\* failed BEGIN, COMMIT or ROLLBACK), never before; the pool's available
\* count is its full size less the connections still held, so it is back at
\* its pre-call value once the calls have finished.
C1_ReleasedExactlyOnce ==
  /\ \A p \in Procs :
       /\ (pc[p] = "Done" /\ CheckedOut(p)) =>
            (Count(log[p], "RELEASE") = 1 /\ client[p] = {})
       /\ pc[p] # "Done" => Count(log[p], "RELEASE") = 0
       /\ (pc[p] # "Done" /\ CheckedOut(p)) => client[p] # {}
  /\ Cardinality(available) =
       PoolSize - Cardinality({p \in Procs : client[p] # {}})
  /\ Quiet => available = Conns

C1_Witness ==
  \E p \in Procs :
    /\ pc[p] = "Done"
    /\ Has(p, "ROLLBACK", FALSE)
    /\ Has(p, "COMMIT", FALSE)
    /\ Count(log[p], "RELEASE") = 1
    /\ available = Conns

SecondInsertFailed(p) ==
  \E i \in DOMAIN log[p] :
    log[p][i] = Stmt("INSERT", log[p][i].conn, <<p, 2>>, FALSE)

\* C2 (as claimed): when the second insert of a unit of work fails,
\* transaction() issues ROLLBACK, returns {data: null, error} and neither
\* row is visible to an independent read.
C2_Atomicity ==
  \A p \in Procs :
    (pc[p] = "Done" /\ SecondInsertFailed(p)) =>
      /\ Issued(p, "ROLLBACK")
      /\ result[p] = Returned(NullData, "InsertError")
      /\ \A i \in 1..MaxInserts : <<p, i>> \notin table

UowReturned(p) == uow[p] = "returned"

\* C3 (as claimed): when the unit of work performs its N inserts and
\* returns normally, transaction() issues COMMIT, returns
\* {data: r, error: null} and all N rows are visible.
C3_CommitVisibilityAsClaimed ==
  \A p \in Procs :
    (pc[p] = "Done" /\ UowReturned(p)) =>
      /\ Issued(p, "COMMIT")
      /\ result[p] = Returned(Val(RowsOf(log[p])), "null")
      /\ RowSet(p) \subseteq table

\* C3 (amended): when the unit of work performs its N inserts and returns
\* normally, transaction() issues COMMIT; when that COMMIT succeeds it
\* returns {data: r, error: null} and all N rows are visible to an
\* independent read; when the COMMIT fails it issues ROLLBACK and r is not
\* returned.
C3_CommitVisibility ==
  \A p \in Procs :
    (pc[p] = "Done" /\ UowReturned(p)) =>
      /\ Issued(p, "COMMIT")
      /\ Has(p, "COMMIT", TRUE) =>
           /\ result[p] = Returned(Val(RowsOf(log[p])), "null")
           /\ RowSet(p) = {<<p, i>> : i \in 1..Count(log[p], "INSERT")}
           /\ RowSet(p) \subseteq table
      /\ Has(p, "COMMIT", FALSE) =>
           /\ Issued(p, "ROLLBACK")
           /\ result[p].data = NullData

C3_Witness ==
  \E p \in Procs :
    /\ pc[p] = "Done"
    /\ UowReturned(p)
    /\ Has(p, "COMMIT", TRUE)
    /\ result[p] = Returned(Val(<<<<p, 1>>, <<p, 2>>>>), "null")
    /\ {<<p, 1>>, <<p, 2>>} \subseteq table

InLogged(p, e) == \E i \in DOMAIN logged[p] : logged[p][i] = e

\* C4 (as claimed): when the unit of work fails with E and the ROLLBACK
\* then fails with R, transaction() returns {data: null, error: E} and R
\* is logged.
C4_RollbackFailureLogged ==
  \A p \in Procs :
    (pc[p] = "Done" /\ uow[p] = "raised" /\ Has(p, "ROLLBACK", FALSE)) =>
      /\ result[p] = Returned(NullData, err[p])
      /\ InLogged(p, "RollbackError")

\* C5 (as claimed): transaction() never finishes by raising a database
\* failure; a failure at any step (checkout, BEGIN, a statement, COMMIT,
\* ROLLBACK) is returned in the error field of the envelope.
C5_NeverRaises ==
  \A p \in Procs :
    /\ result[p].kind # "raised"
    /\ pc[p] = "Done" => result[p].kind = "returned"

\* C6 (as claimed): the connection is released only after a COMMIT or a
\* ROLLBACK has succeeded, so no connection is back in the pool with its
\* transaction still open.
C6_ReleasedAfterEndAsClaimed ==
  /\ \A p \in Procs : \A i \in DOMAIN log[p] :
       log[p][i].op = "RELEASE" =>
         /\ i > 1
         /\ log[p][i - 1].op \in {"COMMIT", "ROLLBACK"}
         /\ log[p][i - 1].ok
  /\ \A c \in available : ~txOpen[c]

\* C6 (amended): per invocation the order is checkout, BEGIN, then COMMIT
\* or ROLLBACK, then release as the last step; the connection is released
\* only after a COMMIT has succeeded or a ROLLBACK has been issued
\* (successfully or not), and a connection is back in the pool with its
\* transaction still open only when the ROLLBACK sent on it failed.
C6_ReleasedAfterEnd ==
  /\ \A p \in Procs : \A i \in DOMAIN log[p] :
       /\ (i = 1) = (log[p][i].op = "CONNECT")
       /\ (i = 2) = (log[p][i].op = "BEGIN")
       /\ log[p][i].op = "RELEASE" =>
            /\ i = Len(log[p])
            /\ i > 2
            /\ \/ log[p][i - 1].op = "COMMIT" /\ log[p][i - 1].ok
               \/ log[p][i - 1].op = "ROLLBACK"
  /\ \A p \in Procs :
       (pc[p] = "Done" /\ CheckedOut(p)) =>
          log[p][Len(log[p])].op = "RELEASE"
  /\ \A c \in available :
       txOpen[c] =>
         \E p \in Procs :
           /\ pc[p] = "Done"
           /\ \E i \in DOMAIN log[p] :
                log[p][i] = Stmt("ROLLBACK", c, <<>>, FALSE)

C6_Witness ==
  \E p \in Procs : \E c \in available :
    /\ pc[p] = "Done"
    /\ txOpen[c]
    /\ pending[c] # {}
    /\ log[p][Len(log[p])] = Stmt("RELEASE", c, <<>>, TRUE)
    /\ log[p][Len(log[p]) - 1] = Stmt("ROLLBACK", c, <<>>, FALSE)

\* The statements of p between checkout and release.
Body(p) == SelectSeq(log[p], LAMBDA s : s.op \notin {"CONNECT", "RELEASE"})
Ops(s) == [i \in DOMAIN s |-> s[i].op]
Finished(p) == pc[p] = "Done" /\ CheckedOut(p)
InsertsInOrder(p) ==
  LET ins == SelectSeq(log[p], LAMBDA s : s.op = "INSERT")
  IN  \A i \in DOMAIN ins : ins[i].row = <<p, i>>
TailOps(p) ==
  SelectSeq(Ops(Body(p)), LAMBDA o : o \in {"COMMIT", "ROLLBACK"})

\* C7 (as claimed): the statements on the connection are BEGIN, the
\* statements of the unit of work in order, then exactly one of COMMIT or
\* ROLLBACK; never both, and no ROLLBACK when BEGIN did not succeed.
C7_StatementOrderAsClaimed ==
  \A p \in Procs :
    Finished(p) =>
      /\ Ops(Body(p)) =
           <<"BEGIN">> \o [i \in 1..Count(log[p], "INSERT") |-> "INSERT"]
             \o TailOps(p)
      /\ InsertsInOrder(p)
      /\ TailOps(p) \in {<<"COMMIT">>, <<"ROLLBACK">>}
      /\ Has(p, "BEGIN", FALSE) => ~Issued(p, "ROLLBACK")

\* C7 (amended): the statements on the connection are BEGIN, then (when
\* BEGIN succeeded) the statements of the unit of work in the order it
\* issued them, then COMMIT when the unit of work returned normally, then
\* ROLLBACK exactly when BEGIN, a statement of the unit of work, the unit
\* of work itself or COMMIT failed. ROLLBACK is the last statement when it
\* is issued, so it also follows a failed BEGIN and a failed COMMIT; each
\* of COMMIT and ROLLBACK is issued at most once and no COMMIT follows a
\* ROLLBACK.
C7_StatementOrder ==
  \A p \in Procs :
    /\ Ops(Body(p)) =
         (IF Body(p) = <<>> THEN <<>> ELSE <<"BEGIN">>)
           \o [i \in 1..Count(log[p], "INSERT") |-> "INSERT"]
           \o TailOps(p)
    /\ InsertsInOrder(p)
    /\ Finished(p) =>
         /\ TailOps(p) \in {<<"COMMIT">>, <<"ROLLBACK">>,
                            <<"COMMIT", "ROLLBACK">>}
         /\ Has(p, "BEGIN", FALSE) => Count(log[p], "INSERT") = 0
         /\ Issued(p, "COMMIT") = UowReturned(p)
         /\ Issued(p, "ROLLBACK") =
              \/ Has(p, "BEGIN", FALSE)
              \/ Has(p, "INSERT", FALSE)
              \/ uow[p] = "raised"
              \/ Has(p, "COMMIT", FALSE)

C7_Witness ==
  \E p \in Procs :
    /\ Finished(p)
    /\ Ops(Body(p)) = <<"BEGIN", "INSERT", "INSERT", "COMMIT", "ROLLBACK">>
    /\ Has(p, "COMMIT", FALSE)

\* ------------------------------------------------------------------------
\* Properties of the query builder (checked under SpecQB)
\* ------------------------------------------------------------------------
RECURSIVE FlatValues(_)
\* The values passed to the filter calls, in call order.
FlatValues(cs) ==
  IF cs = <<>> THEN <<>> ELSE Head(cs).values \o FlatValues(Tail(cs))

\* C8 (as claimed): update(record with k keys) on a builder with filters
\* uses $1..$k in SET, continues the WHERE placeholders from $k+1 and binds
\* the SET values followed by the filter values.
C8_UpdatePlaceholders ==
  (sent.kind = "UPDATE" /\ sent.where # <<>>) =>
    LET k == Len(sent.set) IN
    /\ [i \in 1..k |-> sent.set[i].ph] = [i \in 1..k |-> i]
    /\ sent.params = [i \in 1..k |-> KeyVals[i]] \o whereParams
    /\ Flat(sent.where) = [i \in 1..Len(whereParams) |-> k + i]

\* C9: after any sequence of filter calls the WHERE placeholders are
\* $1..$M in order of appearance, without gap or repeat, M being the number
\* of bound parameters; paramCount = M + 1; every placeholder of the j-th
\* call binds that call's value, the parameters being the values in call
\* order; execute() sends exactly these conditions and parameters.
C9_PlaceholderOrder ==
  /\ paramCount = Len(whereParams) + 1
  /\ Flat(whereConditions) = [k \in 1..Len(whereParams) |-> k]
  /\ whereParams = FlatValues(calls)
  /\ Len(whereConditions) = Len(calls)
  /\ \A j \in DOMAIN calls :
       /\ whereConditions[j].col = calls[j].col
       /\ whereConditions[j].op = calls[j].op
       /\ Len(whereConditions[j].ph) = Len(calls[j].values)
       /\ \A i \in DOMAIN calls[j].values :
            whereParams[whereConditions[j].ph[i]] = calls[j].values[i]
  /\ sent.kind = "SELECT" =>
       /\ sent.where = whereConditions
       /\ sent.params = whereParams

C9_Witness ==
  /\ sent.kind = "SELECT"
  /\ Len(calls) = 2
  /\ calls[1] = [op |-> "IN", col |-> "id", values |-> <<"X", "Y">>]
  /\ calls[2] = [op |-> "ILIKE", col |-> "id", values |-> <<"X">>]
  /\ sent.where[2].ph = <<3>>
  /\ sent.params = <<"X", "Y", "X">>
  /\ qresult.error = "null"

\* C10 (as claimed): in(col, []) followed by execute() returns zero rows
\* without error or reports a specific invalid-predicate error; no IN
\* predicate with an empty list is sent to the database.
C10_EmptyInNotSent ==
  (sent.kind = "SELECT"
     /\ \E j \in DOMAIN calls : calls[j].op = "IN" /\ calls[j].values = <<>>) =>
    /\ ~EmptyIn(sent)
    /\ qresult.error \in {"null", "InvalidPredicate"}

C13_DataOrError ==
  /\ (qresult # Unsettled /\ qresult.count = "absent") =>
       \/ qresult.error = "null" /\ qresult.data \notin {"null", "absent"}
       \/ qresult.error \notin {"null", "absent"} /\ qresult.data = "null"
  /\ (qresult # Unsettled /\ qresult.count # "absent") =>
       /\ qresult.data = "absent"
       /\ \/ qresult.error = "null" /\ qresult.count = "n"
          \/ qresult.error \notin {"null", "absent"} /\ qresult.count = "0"
  /\ \A p \in Procs :
       result[p].kind = "returned" =>
         \/ result[p].error = "null" /\ result[p].data # NullData
         \/ result[p].error # "null" /\ result[p].data = NullData

C13_Witness ==
  /\ sent.kind = "DELETE"
  /\ Len(sent.where) = 1
  /\ ~Malformed(sent)
  /\ qresult = [data |-> "null", count |-> "absent", error |-> "DbError"]

\* ------------------------------------------------------------------------
\* Properties of the builder's projection, order and paging (SpecPage)
\* ------------------------------------------------------------------------
\* What the chained calls denote: the predicates of the filter calls in call
\* order, numbered from $1, and the statement execute() is to send for them.
Last(s) == s[Len(s)]
ExpectedWhere ==
  [j \in DOMAIN calls |->
     [col |-> calls[j].col, op |-> calls[j].op,
      ph |-> [i \in 1..Len(calls[j].values) |->
                Len(FlatValues(SubSeq(calls, 1, j - 1))) + i]]]
ExpectedOrderBy ==
  IF chained.orderBy = <<>> THEN <<>>
  ELSE <<[cols |-> <<Last(chained.orderBy).col>>,
          dir |-> IF Last(chained.orderBy).dir = "omitted" THEN "ASC"
                  ELSE Last(chained.orderBy).dir]>>
ExpectedSelect ==
  [kind |-> "SELECT", set |-> <<>>, where |-> ExpectedWhere,
   params |-> FlatValues(calls),
   tail |-> [columns |-> IF chained.select = <<>> THEN <<"*">>
                         ELSE chained.select[1],
             orderBy |-> ExpectedOrderBy,
             limit |-> chained.limit,
             offset |-> chained.offset]]
Paging(called) == IF called = <<>> THEN NullData ELSE Val(called[1])

\* C11: count() leaves the builder's accumulated state as the chained calls
\* made it (columns, predicates, parameters, placeholder counter, order,
\* limit, offset); an execute() on the same instance sends the statement and
\* parameters the chain denotes, whether or not count() ran before; count()
\* itself sends the chain's predicates and parameters and no projection,
\* ORDER BY, LIMIT or OFFSET.
C11_CountLeavesBuilder ==
  /\ sent.kind = "SELECT" => sent = ExpectedSelect
  /\ sent.kind = "COUNT" =>
       /\ sent.where = ExpectedWhere
       /\ sent.params = FlatValues(calls)
       /\ sent.tail = NoTail
  /\ counted =>
       /\ columns = ExpectedSelect.tail.columns
       /\ whereConditions = ExpectedWhere
       /\ whereParams = FlatValues(calls)
       /\ paramCount = Len(whereParams) + 1
       /\ SelectTail = ExpectedSelect.tail
       /\ limitValue = Paging(chained.limit)
       /\ offsetValue = Paging(chained.offset)

C11_Witness ==
  /\ counted
  /\ qpc = "done"
  /\ sent.kind = "SELECT"
  /\ Len(sent.where) = 2
  /\ sent.tail.columns = <<"id", "name">>
  /\ sent.tail.orderBy = <<[cols |-> <<"name">>, dir |-> "DESC"]>>
  /\ sent.tail.limit = <<1>>
  /\ sent.tail.offset = <<1>>

\* C15: after any sequence of orderBy calls exactly one sort key is active,
\* the column and direction of the last call (ASC when the direction is
\* omitted); execute() writes that key alone in ORDER BY; and the orderBy
\* calls leave predicates, parameters, limit and offset as the other calls
\* made them.
C15_LastOrderByWins ==
  /\ chained.orderBy = <<>> => orderByColumns = <<>>
  /\ chained.orderBy # <<>> =>
       /\ orderByColumns = <<Last(chained.orderBy).col>>
       /\ orderDirection = ExpectedOrderBy[1].dir
  /\ sent.kind = "SELECT" => sent.tail.orderBy = ExpectedOrderBy
  /\ whereConditions = ExpectedWhere
  /\ whereParams = FlatValues(calls)
  /\ limitValue = Paging(chained.limit)
  /\ offsetValue = Paging(chained.offset)

C15_Witness ==
  /\ chained.orderBy = <<[col |-> "id", dir |-> "DESC"],
                         [col |-> "name", dir |-> "omitted"]>>
  /\ sent.kind = "SELECT"
  /\ sent.tail.orderBy = <<[cols |-> <<"name">>, dir |-> "ASC"]>>
  /\ Len(sent.where) = 1
  /\ sent.tail.limit = <<1>>
  /\ qresult.error = "null"

\* ------------------------------------------------------------------------
\* Properties of the CRUD services (checked under SpecSvc)
\* ------------------------------------------------------------------------
Adds == {"addCategory", "addProfile"}
Updates ==
  {"updateCategory", "updateMenuItem", "updateTable", "updateProfile",
   "resetPassword"}
Deletes ==
  {"deleteCategory", "deleteMenuItem", "deleteTable", "deleteProfile",
   "signOut"}
OthersKept ==
  \A i \in DOMAIN snapshot \ {call.id} :
    i \in DOMAIN rows /\ rows[i] = snapshot[i]

\* C14 (as claimed): when the database executes the statement successfully,
\* addCategory, updateCategory, addProfile and updateProfile (of an existing
\* row) return {data: the inserted or updated row, error: null}, the row
\* having the given name and the generated or given id, and the table then
\* holds that row for a later read.
C14_MutationReturnsRow ==
  (/\ executed = "ok"
   /\ \/ call.svc \in Adds
      \/ call.svc \in {"updateCategory", "updateProfile"}
           /\ call.id \in DOMAIN snapshot) =>
    /\ outcome.error = "null"
    /\ outcome.data = Val([id |-> call.id, name |-> call.name])
    /\ call.id \in DOMAIN rows
    /\ rows[call.id] = call.name

\* C16 (as claimed): updateCategory, updateMenuItem, updateTable,
\* updateProfile and the password update of resetPassword change only the
\* row with the given id: every other row is as it was when the service was
\* called, whatever the service returned.
C16_UpdateTouchesOneRow ==
  call.svc \in Updates => (OthersKept /\ DOMAIN rows = DOMAIN snapshot)

\* C17 (as claimed): deleteCategory, deleteMenuItem, deleteTable,
\* deleteProfile and signOut remove at most the row with the given id: every
\* other row still exists afterwards, whatever the service returned.
C17_DeleteTouchesOneRow ==
  call.svc \in Deletes => OthersKept

\* C21 (as claimed): deleteCategory never deletes a category that at least
\* one menu item refers to, deletes nothing when the count of the referring
\* rows fails, and in both cases returns success: false; the same for
\* deleteMenuItem, deleteTable and deleteProfile.
GuardedDeletes ==
  {"deleteCategory", "deleteMenuItem", "deleteTable", "deleteProfile"}
C21_ReferredRowKept ==
  call.svc \in GuardedDeletes =>
    /\ \A i \in wasReferred : i \in DOMAIN rows
    /\ outcome.error = "DbError" => rows = snapshot
    /\ (call.id \in wasReferred \/ outcome.error = "DbError") =>
         outcome.success = "false"

\* ------------------------------------------------------------------------
\* Properties of the order services (checked under SpecOrders)
\* ------------------------------------------------------------------------
WaitsForConnection(p) == opc[p] \in {"FetchOrder", "FetchItems"}
Persisted(p) ==
  /\ Row("orders", order[p].id, 0) \in stored
  /\ \A i \in 1..order[p].items : Row("order_items", order[p].id, i) \in stored
NothingPersisted(p) == \A w \in stored : w.order # order[p].id

\* C18 (as claimed): with a pool of N connections and concurrent
\* createTableOrder, createManualOrder, updateOrderStatus and
\* registerOrderPayment calls, no call waits forever for a connection while
\* it holds one: the pool is never left with every connection held by a
\* call that itself waits for a connection of the pool (from where no call
\* can return and no connection can come back).
C18_NoCallStarves ==
  ~(/\ idle = {}
    /\ \A c \in OrderConns :
         \E p \in Procs : holds[p] = {c} /\ WaitsForConnection(p))

\* C19 (as claimed): a createTableOrder or createManualOrder call that
\* succeeded, both reads of fetchOrderById having succeeded, returns the
\* complete order just created: the order row of this transaction together
\* with all the order_items rows of this transaction.
C19_ReturnsCreatedOrder ==
  \A p \in Procs :
    (/\ opc[p] = "Done"
     /\ order[p].svc \in Creates
     /\ answer[p].error = "null"
     /\ fetched[p].error = "null"
     /\ fetched[p].data[2].items # <<>>) =>
      /\ answer[p].data = Val(fetched[p])
      /\ fetched[p].data = Val([order |-> TRUE, items |-> <<order[p].items>>])

\* C20 (as claimed): when the database executes every statement of
\* createManualOrder's unit of work, the transaction commits and the order
\* row and one order_items row per input item are persisted; when the order
\* insert or an item insert is rejected, nothing of the order is persisted.
C20_ManualOrderPersisted ==
  \A p \in Procs :
    (opc[p] = "Done" /\ order[p].svc = "createManualOrder") =>
      /\ ~failed[p] => (Persisted(p) /\ answer[p].error = "null")
      /\ failed[p] => NothingPersisted(p)

\* ------------------------------------------------------------------------
\* Properties of the cash register services (checked under SpecCash)
\* ------------------------------------------------------------------------
OpenSessions(c) == {i \in DOMAIN c : c[i].status = "OPEN"}

\* C22 (as claimed): after any sequence of openCashRegister and
\* closeCashRegister calls at most one cash register session has status
\* OPEN.
C22_AtMostOneOpen == Cardinality(OpenSessions(cash)) <= 1

\* C23 (as claimed): when no session has status OPEN and the database
\* answers the read, openCashRegister(b) creates one new session with
\* status OPEN and opening_balance b and returns it with error: null.
C23_OpenCreatesSession ==
  (/\ cashCall.svc = "openCashRegister"
   /\ cashCall.readOk
   /\ OpenSessions(cashBefore) = {}) =>
    /\ cashOut.error = "null"
    /\ cashOut.data = Val(sessionData(cashCall.id, cashCall.amount))
    /\ \/ cashCall.id \in DOMAIN cash
       \/ \E q \in cashSent : q.kind = "INSERT" /\ q.id = cashCall.id

\* C24 (as claimed): closeCashRegister(id, ..) on an OPEN session stores
\* status CLOSED with closed_at set; on a session that is CLOSED or does not
\* exist it returns an error and changes no session; and no session that
\* was CLOSED is OPEN afterwards.
ClosedBy(q) == q.kind = "UPDATE" /\ q.id = cashCall.id
WasOpen ==
  /\ cashCall.id \in DOMAIN cashBefore
  /\ cashBefore[cashCall.id].status = "OPEN"
C24_OpenToClosedOnly ==
  /\ (cashCall.svc = "closeCashRegister" /\ cashCall.readOk /\ WasOpen) =>
       \/ \E q \in cashSent : ClosedBy(q)
       \/ /\ cashCall.id \in DOMAIN cash
          /\ cash[cashCall.id].status = "CLOSED"
          /\ cash[cashCall.id].closed_at # NullData
  /\ (cashCall.svc = "closeCashRegister" /\ ~WasOpen) =>
       /\ cashOut.error \notin {"null", "absent"}
       /\ \A q \in cashSent : ~ClosedBy(q)
  /\ \A i \in DOMAIN cashBefore :
       cashBefore[i].status = "CLOSED" =>
         i \in DOMAIN cash /\ cash[i].status = "CLOSED"

C25_SessionBoundedLife ==
  /\ \A s \in accepted :
       (s \notin signedOut /\ s \notin lapsed) => s \in DOMAIN sess
  /\ (authCall.svc = "getSession" /\ authOut.error = "null") =>
       /\ authOut.session = Val(authCall.id)
       /\ authOut.user[1] = "val"
       /\ DOMAIN authOut.user[2] = {"id", "email"}

\* C26 (as claimed): with the database answering, requestPasswordReset
\* returns {success: true, error: null} for an email with no account and
\* the same for an email that has an account.
C26_ResetRequestOpaque ==
  (authCall.svc = "requestPasswordReset" /\ authCall.readOk) =>
    authOut = AuthSuccess("true", "null")

OpenOrders(t) ==
  {p \in Procs : /\ order[p].svc \in Creates
                 /\ order[p].table = t
                 /\ Row("orders", order[p].id, 0) \in stored}

====
